---- MODULE Spec2Model ----
(***************************************************************************)
(* Model of the tiered file store of go-file-conversion (src/main.go):     *)
(* FileStore with its metadata table (files), content table (ramStore),    *)
(* usage counter (currentRAMUsage), the disk directory, the store mutex,   *)
(* the uploading / downloading goroutines and the cleanup goroutine.       *)
(***************************************************************************)
EXTENDS Integers, Sequences, FiniteSets, TLC

(* ---------------------------- bounds ----------------------------------- *)
NumProcs == 2        \* request goroutines running AddFile / GetFile
MaxIDs == 2          \* identifiers generateID may hand out in one run
MaxTime == 2         \* last instant of the clock
MaxLen == 3          \* longest payload, in bytes

(* ------------------------ program constants ---------------------------- *)
\* src/main.go:26 and :28, scaled: one clock unit per expiry duration and a
\* budget of two bytes, so that payloads of MaxLen bytes exceed the budget.
fileExpiryDuration == 1
ramLimitBytes == 2

Procs == 1..NumProcs
IDs == 1..MaxIDs
Times == 0..MaxTime
Bytes == {0}

\* Upload payloads: every byte sequence over Bytes of at most MaxLen bytes.
Payloads == {[i \in 1..n |-> b] : n \in 0..MaxLen, b \in Bytes}

\* targetFormat as handleUpload passes it: "" means no conversion.
Formats == {"", "png"}

\* header.Filename of the upload, as <<base name, extension>>.
UploadName == <<"f", "jpg">>

NoOwner == 0 - 1     \* the mutex is free
Sweeper == 0         \* the cleanupRoutine goroutine as a mutex owner

\* error values
ErrNil == "nil"
ErrGenerateID == "failed to generate file ID"
ErrReadContent == "failed to read file content"
ErrConversion == "conversion failed"
ErrWriteDisk == "failed to write file to disk"
ErrNotFound == "file not found or expired"
ErrInconsistent == "file metadata inconsistency: RAM file not found"
ErrReadDisk == "failed to read file from disk"

\* Path of a record that has none (the zero value "").
NoPath == <<>>

\* The nil *FileMetadata.
NilMeta == [ID |-> 0, ConvertedName |-> <<>>, Size |-> 0, UploadTime |-> 0,
            ExpiryTime |-> 0, IsInMemory |-> FALSE, Path |-> NoPath]

VARIABLES
    files,            \* fs.files: fileID -> metadata
    ramStore,         \* fs.ramStore: fileID -> content
    currentRAMUsage,  \* fs.currentRAMUsage
    disk,             \* the files under fs.diskPath: path -> content
    mu,               \* fs.mu: the goroutine holding the mutex, or NoOwner
    now,              \* the wall clock read by time.Now()
    pc,               \* position of every request goroutine
    local,            \* local variables of every request goroutine
    ret,              \* the value returned by the call that returned in the
                      \* last step, NilRet if no call returned in it
    sweep,            \* position and locals of cleanupRoutine
    stored            \* history: what every successful AddFile stored

vars == <<files, ramStore, currentRAMUsage, disk, mu, now, pc, local, ret,
          sweep, stored>>

(* ------------------------- helper operators ---------------------------- *)
Remove(f, k) == [x \in DOMAIN f \ {k} |-> f[x]]

Put(f, k, v) == [x \in DOMAIN f \cup {k} |-> IF x = k THEN v ELSE f[x]]

\* The FileStore fields as one value.
Store == [files |-> files, ramStore |-> ramStore,
          currentRAMUsage |-> currentRAMUsage, disk |-> disk]

SetStore(st) ==
    /\ files' = st.files
    /\ ramStore' = st.ramStore
    /\ currentRAMUsage' = st.currentRAMUsage
    /\ disk' = st.disk

\* Mutant of MutexFree: Lock never blocks.
MutexFree_Always(m) == TRUE

\* sync.Mutex: Lock succeeds only on a free mutex.
MutexFree(m) == m = NoOwner

\* generateID: 16 random bytes, hex encoded.  A 128-bit draw repeating an
\* earlier one is not modelled: the draw is any identifier not issued yet.
generateID(issued) == IDs \ issued

\* time.Time.After: strictly later.
After(t, u) == t > u

\* Mutant of Expired: a record counts as expired at its ExpiryTime already.
Expired_Inclusive(t, meta) == t >= meta.ExpiryTime

\* Mutant of Expired: the expiry test is missing.
Expired_Never(t, meta) == FALSE

\* The expiry test of GetFile and cleanupRoutine.
Expired(t, meta) == After(t, meta.ExpiryTime)

\* Mutant of FitsInRAM: strict comparison.
FitsInRAM_Strict(usage, fileSize) == usage + fileSize < ramLimitBytes

\* The placement test of AddFile.
FitsInRAM(usage, fileSize) == usage + fileSize <= ramLimitBytes

\* baseName + "." + targetFormat
OutputFilename(name, targetFormat) == <<name[1], targetFormat>>

\* performConversion: the converted bytes depend on the codec; every payload
\* is a possible result, and so is an error.
ConversionResults == [err : {FALSE}, bytes : Payloads]
                        \cup {[err |-> TRUE, bytes |-> <<>>]}

\* filepath.Join(fs.diskPath, fileID+"_"+meta.ConvertedName)
\* Mutant of DiskFilePath: the path is derived from the file name alone.
DiskFilePath_NameOnly(fileID, convertedName) == <<0, convertedName>>

DiskFilePath(fileID, convertedName) == <<fileID, convertedName>>

\* os.WriteFile outcomes: the file is written in full, or the call fails
\* and leaves no file.
WriteOutcomes == {"ok", "fail"}

\* Mutant of WriteFile: the file is created but the data is not written.
WriteFile_Truncating(d, path, data, outcome) ==
    IF outcome = "ok" THEN Put(d, path, <<>>) ELSE d

WriteFile(d, path, data, outcome) ==
    IF outcome = "ok" THEN Put(d, path, data) ELSE d

\* os.Remove: removes the file unless the call fails.
RemoveFile(d, path, rmOk) ==
    IF rmOk /\ path \in DOMAIN d THEN Remove(d, path) ELSE d


\* Mutant of deleteFileInternal: a Memory-tier record gives its bytes back to
\* the counter but its two table entries are not deleted.
deleteFileInternal_KeepEntries(st, fileID, rmOk) ==
    IF fileID \notin DOMAIN st.files
    THEN st
    ELSE LET meta == st.files[fileID] IN
         IF meta.IsInMemory
         THEN IF fileID \in DOMAIN st.ramStore
              THEN [st EXCEPT
                      !.currentRAMUsage = @ - Len(st.ramStore[fileID])]
              ELSE [st EXCEPT !.files = Remove(@, fileID)]
         ELSE [st EXCEPT
                 !.disk = RemoveFile(@, meta.Path, rmOk),
                 !.files = Remove(@, fileID)]

\* Mutant of deleteFileInternal: the counter is lowered by the record's
\* Size field instead of the length of its content.
deleteFileInternal_DecrementBySize(st, fileID, rmOk) ==
    IF fileID \notin DOMAIN st.files
    THEN st
    ELSE LET meta == st.files[fileID] IN
         IF meta.IsInMemory
         THEN IF fileID \in DOMAIN st.ramStore
              THEN [st EXCEPT
                      !.currentRAMUsage = @ - meta.Size,
                      !.ramStore = Remove(@, fileID),
                      !.files = Remove(@, fileID)]
              ELSE [st EXCEPT !.files = Remove(@, fileID)]
         ELSE [st EXCEPT
                 !.disk = RemoveFile(@, meta.Path, rmOk),
                 !.files = Remove(@, fileID)]

\* Mutant of deleteFileInternal: the content of a Memory-tier record stays
\* in the content table.
deleteFileInternal_KeepContent(st, fileID, rmOk) ==
    IF fileID \notin DOMAIN st.files
    THEN st
    ELSE LET meta == st.files[fileID] IN
         IF meta.IsInMemory
         THEN IF fileID \in DOMAIN st.ramStore
              THEN [st EXCEPT
                      !.currentRAMUsage = @ - Len(st.ramStore[fileID]),
                      !.files = Remove(@, fileID)]
              ELSE [st EXCEPT !.files = Remove(@, fileID)]
         ELSE [st EXCEPT
                 !.disk = RemoveFile(@, meta.Path, rmOk),
                 !.files = Remove(@, fileID)]

\* Mutant of deleteFileInternal: the usage counter is not lowered.
deleteFileInternal_NoDecrement(st, fileID, rmOk) ==
    IF fileID \notin DOMAIN st.files
    THEN st
    ELSE LET meta == st.files[fileID] IN
         IF meta.IsInMemory
         THEN [st EXCEPT !.ramStore = Remove(@, fileID),
                         !.files = Remove(@, fileID)]
         ELSE [st EXCEPT
                 !.disk = RemoveFile(@, meta.Path, rmOk),
                 !.files = Remove(@, fileID)]

\* Mutant of deleteFileInternal: the deletion is given up when os.Remove
\* fails.
deleteFileInternal_AbortOnRemoveError(st, fileID, rmOk) ==
    IF fileID \notin DOMAIN st.files
    THEN st
    ELSE LET meta == st.files[fileID] IN
         IF meta.IsInMemory
         THEN IF fileID \in DOMAIN st.ramStore
              THEN [st EXCEPT
                      !.currentRAMUsage = @ - Len(st.ramStore[fileID]),
                      !.ramStore = Remove(@, fileID),
                      !.files = Remove(@, fileID)]
              ELSE [st EXCEPT !.files = Remove(@, fileID)]
         ELSE IF rmOk
              THEN [st EXCEPT
                      !.disk = RemoveFile(@, meta.Path, rmOk),
                      !.files = Remove(@, fileID)]
              ELSE st

\* Mutant of deleteFileInternal: the content of a Memory-tier record is
\* released but its metadata entry is not deleted.
deleteFileInternal_KeepMeta(st, fileID, rmOk) ==
    IF fileID \notin DOMAIN st.files
    THEN st
    ELSE LET meta == st.files[fileID] IN
         IF meta.IsInMemory
         THEN IF fileID \in DOMAIN st.ramStore
              THEN [st EXCEPT
                      !.currentRAMUsage = @ - Len(st.ramStore[fileID]),
                      !.ramStore = Remove(@, fileID)]
              ELSE st
         ELSE [st EXCEPT
                 !.disk = RemoveFile(@, meta.Path, rmOk),
                 !.files = Remove(@, fileID)]

\* deleteFileInternal: the deletion of a file and its metadata; the caller
\* holds the lock.  rmOk tells whether os.Remove succeeds.
deleteFileInternal(st, fileID, rmOk) ==
    IF fileID \notin DOMAIN st.files
    THEN st
    ELSE LET meta == st.files[fileID] IN
         IF meta.IsInMemory
         THEN IF fileID \in DOMAIN st.ramStore
              THEN [st EXCEPT
                      !.currentRAMUsage = @ - Len(st.ramStore[fileID]),
                      !.ramStore = Remove(@, fileID),
                      !.files = Remove(@, fileID)]
              ELSE [st EXCEPT !.files = Remove(@, fileID)]
         ELSE [st EXCEPT
                 !.disk = RemoveFile(@, meta.Path, rmOk),
                 !.files = Remove(@, fileID)]

\* The metadata AddFile builds before the conversion step: Size is the
\* length of the bytes read, the two timestamps come from two clock reads.
NewMeta(fileID, fileBytes, uploadTime, expiryBase) ==
    [ID |-> fileID, ConvertedName |-> UploadName, Size |-> Len(fileBytes),
     UploadTime |-> uploadTime,
     ExpiryTime |-> expiryBase + fileExpiryDuration,
     IsInMemory |-> FALSE, Path |-> NoPath]

\* The conversion branch of AddFile: the locals after a successful
\* conversion to targetFormat that produced convertedBytes.
ApplyConversion(l, convertedBytes) ==
    [l EXCEPT !.meta.ConvertedName = OutputFilename(UploadName, l.targetFormat),
              !.fileSize = Len(convertedBytes),
              !.fileBytes = convertedBytes]

\* Mutant of PlaceFile: a blob that does not fit the remaining budget but
\* fits the whole budget displaces the Memory-tier records and goes to RAM.
PlaceFile_Displacing(st, meta, fileBytes, fileSize, inRAM, outcome) ==
    LET mem == {id \in DOMAIN st.files : st.files[id].IsInMemory}
        room == IF inRAM \/ fileSize > ramLimitBytes
                THEN st
                ELSE [st EXCEPT
                        !.files = [id \in DOMAIN st.files \ mem |->
                                      st.files[id]],
                        !.ramStore = [id \in DOMAIN st.ramStore \ mem |->
                                         st.ramStore[id]],
                        !.currentRAMUsage = 0]
    IN IF inRAM \/ fileSize <= ramLimitBytes
       THEN LET m == [meta EXCEPT !.IsInMemory = TRUE] IN
            [st |-> [room EXCEPT !.ramStore = Put(@, meta.ID, fileBytes),
                                 !.currentRAMUsage = @ + fileSize,
                                 !.files = Put(@, meta.ID, m)],
             meta |-> m, err |-> ErrNil]
       ELSE LET path == DiskFilePath(meta.ID, meta.ConvertedName)
                d == WriteFile(st.disk, path, fileBytes, outcome)
                m == [meta EXCEPT !.IsInMemory = FALSE, !.Path = path]
            IN IF outcome # "ok"
               THEN [st |-> [st EXCEPT !.disk = d], meta |-> NilMeta,
                     err |-> ErrWriteDisk]
               ELSE [st |-> [st EXCEPT !.disk = d,
                                       !.files = Put(@, meta.ID, m)],
                     meta |-> m, err |-> ErrNil]

\* Mutant of PlaceFile: a blob larger than the whole budget is rejected.
PlaceFile_RejectLarge(st, meta, fileBytes, fileSize, inRAM, outcome) ==
    IF fileSize > ramLimitBytes
    THEN [st |-> st, meta |-> NilMeta, err |-> ErrWriteDisk]
    ELSE IF inRAM
    THEN LET m == [meta EXCEPT !.IsInMemory = TRUE] IN
         [st |-> [st EXCEPT !.ramStore = Put(@, meta.ID, fileBytes),
                            !.currentRAMUsage = @ + fileSize,
                            !.files = Put(@, meta.ID, m)],
          meta |-> m, err |-> ErrNil]
    ELSE LET path == DiskFilePath(meta.ID, meta.ConvertedName)
             d == WriteFile(st.disk, path, fileBytes, outcome)
             m == [meta EXCEPT !.IsInMemory = FALSE, !.Path = path]
         IN IF outcome # "ok"
            THEN [st |-> [st EXCEPT !.disk = d], meta |-> NilMeta,
                  err |-> ErrWriteDisk]
            ELSE [st |-> [st EXCEPT !.disk = d, !.files = Put(@, meta.ID, m)],
                  meta |-> m, err |-> ErrNil]

\* Mutant of PlaceFile: the metadata is inserted before the disk write is
\* known to have succeeded.
PlaceFile_InsertFirst(st, meta, fileBytes, fileSize, inRAM, outcome) ==
    IF inRAM
    THEN LET m == [meta EXCEPT !.IsInMemory = TRUE] IN
         [st |-> [st EXCEPT !.ramStore = Put(@, meta.ID, fileBytes),
                            !.currentRAMUsage = @ + fileSize,
                            !.files = Put(@, meta.ID, m)],
          meta |-> m, err |-> ErrNil]
    ELSE LET path == DiskFilePath(meta.ID, meta.ConvertedName)
             d == WriteFile(st.disk, path, fileBytes, outcome)
             m == [meta EXCEPT !.IsInMemory = FALSE, !.Path = path]
             st2 == [st EXCEPT !.disk = d, !.files = Put(@, meta.ID, m)]
         IN IF outcome # "ok"
            THEN [st |-> st2, meta |-> NilMeta, err |-> ErrWriteDisk]
            ELSE [st |-> st2, meta |-> m, err |-> ErrNil]

\* The storage branch of AddFile: the store, the metadata and the error
\* after placing fileBytes in RAM (inRAM) or on disk with the given
\* os.WriteFile outcome.
PlaceFile(st, meta, fileBytes, fileSize, inRAM, outcome) ==
    IF inRAM
    THEN LET m == [meta EXCEPT !.IsInMemory = TRUE] IN
         [st |-> [st EXCEPT !.ramStore = Put(@, meta.ID, fileBytes),
                            !.currentRAMUsage = @ + fileSize,
                            !.files = Put(@, meta.ID, m)],
          meta |-> m, err |-> ErrNil]
    ELSE LET path == DiskFilePath(meta.ID, meta.ConvertedName)
             d == WriteFile(st.disk, path, fileBytes, outcome)
             m == [meta EXCEPT !.IsInMemory = FALSE, !.Path = path]
         IN IF outcome # "ok"
            THEN [st |-> [st EXCEPT !.disk = d], meta |-> NilMeta,
                  err |-> ErrWriteDisk]
            ELSE [st |-> [st EXCEPT !.disk = d, !.files = Put(@, meta.ID, m)],
                  meta |-> m, err |-> ErrNil]

\* Mutant of ReadContent: a missing disk file is reported with the error of
\* an unknown identifier.
ReadContent_MissingIsNotFound(st, fileID) ==
    LET meta == st.files[fileID] IN
    IF meta.IsInMemory
    THEN IF fileID \in DOMAIN st.ramStore
         THEN [err |-> ErrNil, meta |-> meta, content |-> st.ramStore[fileID]]
         ELSE [err |-> ErrInconsistent, meta |-> NilMeta, content |-> <<>>]
    ELSE IF meta.Path \in DOMAIN st.disk
         THEN [err |-> ErrNil, meta |-> meta, content |-> st.disk[meta.Path]]
         ELSE [err |-> ErrNotFound, meta |-> NilMeta, content |-> <<>>]

\* The lookup part of GetFile for a record that exists and has not expired:
\* the value returned.
ReadContent(st, fileID) ==
    LET meta == st.files[fileID] IN
    IF meta.IsInMemory
    THEN IF fileID \in DOMAIN st.ramStore
         THEN [err |-> ErrNil, meta |-> meta, content |-> st.ramStore[fileID]]
         ELSE [err |-> ErrInconsistent, meta |-> NilMeta, content |-> <<>>]
    ELSE IF meta.Path \in DOMAIN st.disk
         THEN [err |-> ErrNil, meta |-> meta, content |-> st.disk[meta.Path]]
         ELSE [err |-> ErrReadDisk, meta |-> NilMeta, content |-> <<>>]

\* Mutant of RangeRest: the iteration ends after the first deletion.
RangeRest_StopAfterDelete(todo, id, remaining) ==
    IF id \in remaining THEN (todo \ {id}) \cap remaining ELSE {}

\* Entries a range over fs.files still has to produce after producing id:
\* every entry is produced once, entries deleted meanwhile are not produced.
RangeRest(todo, id, remaining) == (todo \ {id}) \cap remaining

(* ------------------------------ state ---------------------------------- *)
NilLocal == [fileID |-> 0, fileBytes |-> <<>>, fileSize |-> 0,
             meta |-> NilMeta, targetFormat |-> "", inRAM |-> FALSE]

NilRet == [proc |-> 0, op |-> "none", fileID |-> 0, err |-> ErrNil,
           meta |-> NilMeta, content |-> <<>>]

SweepIdle == [pc |-> "wait", now |-> 0, todo |-> {}]

Init ==
    /\ files = <<>>
    /\ ramStore = <<>>
    /\ currentRAMUsage = 0
    /\ disk = <<>>
    /\ mu = NoOwner
    /\ now = 0
    /\ pc = [p \in Procs |-> "idle"]
    /\ local = [p \in Procs |-> NilLocal]
    /\ ret = NilRet
    /\ sweep = SweepIdle
    /\ stored = <<>>

AddStates == {"AddLock", "AddRead", "AddConvert", "AddStore"}

\* A call returns: the result is recorded, the locals die and the deferred
\* fs.mu.Unlock() runs.
Return(p, op, fileID, r) ==
    /\ ret' = [proc |-> p, op |-> op, fileID |-> fileID, err |-> r.err,
               meta |-> r.meta, content |-> r.content]
    /\ pc' = [pc EXCEPT ![p] = "idle"]
    /\ local' = [local EXCEPT ![p] = NilLocal]
    /\ mu' = NoOwner

\* A step in which no call returns.
NoReturn == ret' = NilRet

Failure(e) == [err |-> e, meta |-> NilMeta, content |-> <<>>]

\* History bookkeeping when a record leaves the metadata table: of a
\* removed record only its expiry time and the operation that removed it
\* are remembered.
MarkRemoved(st, by) ==
    [id \in DOMAIN stored |->
        IF id \in DOMAIN files /\ id \notin DOMAIN st.files
        THEN [meta |-> [NilMeta EXCEPT
                          !.ExpiryTime = stored[id].meta.ExpiryTime],
              bytes |-> <<>>, seq |-> 0, removedBy |-> by]
        ELSE stored[id]]

(* ----------------------------- AddFile --------------------------------- *)
\* The identifiers drawn so far that are stored or about to be stored.
IssuedIDs ==
    DOMAIN stored
      \cup {local[q].fileID : q \in {r \in Procs :
                                       pc[r] \in {"AddConvert", "AddStore"}}}

\* handleUpload calls fs.AddFile; the goroutine blocks in fs.mu.Lock().
AddFileCall(p) ==
    /\ pc[p] = "idle"
    /\ Cardinality(DOMAIN stored)
         + Cardinality({q \in Procs : pc[q] \in AddStates}) < MaxIDs
    /\ pc' = [pc EXCEPT ![p] = "AddLock"]
    /\ NoReturn
    /\ UNCHANGED <<files, ramStore, currentRAMUsage, disk, mu, now, local,
                   sweep, stored>>

AddFileLock(p) ==
    /\ pc[p] = "AddLock"
    /\ MutexFree(mu)
    /\ mu' = p
    /\ pc' = [pc EXCEPT ![p] = "AddRead"]
    /\ NoReturn
    /\ UNCHANGED <<files, ramStore, currentRAMUsage, disk, now,
                   local, sweep, stored>>

\* generateID, io.ReadAll and the construction of meta.  The payload and
\* the target format of the upload are drawn here, where they are first
\* read.  The clock may advance between the two time.Now() calls.
AddFileRead(p) ==
    /\ pc[p] = "AddRead"
    /\ \/ /\ Return(p, "AddFile", 0, Failure(ErrGenerateID))
          /\ UNCHANGED <<files, ramStore, currentRAMUsage, disk, now, sweep,
                         stored>>
       \/ /\ generateID(IssuedIDs) # {}
          /\ Return(p, "AddFile", 0, Failure(ErrReadContent))
          /\ UNCHANGED <<files, ramStore, currentRAMUsage, disk, now, sweep,
                         stored>>
       \/ \E fileID \in generateID(IssuedIDs), fileBytes \in Payloads,
             targetFormat \in Formats, t2 \in {now, now + 1} \cap Times :
            /\ local' = [local EXCEPT ![p] =
                  [fileID |-> fileID, fileBytes |-> fileBytes,
                   fileSize |-> Len(fileBytes),
                   meta |-> NewMeta(fileID, fileBytes, now, t2),
                   targetFormat |-> targetFormat, inRAM |-> FALSE]]
            /\ now' = t2
            /\ pc' = [pc EXCEPT ![p] = "AddConvert"]
            /\ NoReturn
            /\ UNCHANGED <<files, ramStore, currentRAMUsage, disk,
                           mu, sweep, stored>>

\* Mutant of AddFileConvert: the error return of the conversion branch
\* does not unlock.
AddFileConvert_ErrorKeepsLock(p) ==
    /\ pc[p] = "AddConvert"
    /\ \E r \in ConversionResults :
         LET l == IF local[p].targetFormat # ""
                  THEN ApplyConversion(local[p], r.bytes)
                  ELSE local[p]
         IN IF local[p].targetFormat # "" /\ r.err
            THEN /\ ret' = [proc |-> p, op |-> "AddFile", fileID |-> 0,
                            err |-> ErrConversion, meta |-> NilMeta,
                            content |-> <<>>]
                 /\ pc' = [pc EXCEPT ![p] = "idle"]
                 /\ local' = [local EXCEPT ![p] = NilLocal]
                 /\ UNCHANGED <<files, ramStore, currentRAMUsage, disk, mu,
                                now, sweep, stored>>
            ELSE /\ local' = [local EXCEPT ![p] =
                       [l EXCEPT !.inRAM = FitsInRAM(currentRAMUsage,
                                                     l.fileSize)]]
                 /\ pc' = [pc EXCEPT ![p] = "AddStore"]
                 /\ NoReturn
                 /\ UNCHANGED <<files, ramStore, currentRAMUsage, disk, mu,
                                now, sweep, stored>>

\* The conversion branch and the evaluation of the placement test.
AddFileConvert(p) ==
    /\ pc[p] = "AddConvert"
    /\ \E r \in ConversionResults :
         LET l == IF local[p].targetFormat # ""
                  THEN ApplyConversion(local[p], r.bytes)
                  ELSE local[p]
         IN IF local[p].targetFormat # "" /\ r.err
            THEN /\ Return(p, "AddFile", 0, Failure(ErrConversion))
                 /\ UNCHANGED <<files, ramStore, currentRAMUsage, disk, now,
                                sweep, stored>>
            ELSE /\ local' = [local EXCEPT ![p] =
                       [l EXCEPT !.inRAM = FitsInRAM(currentRAMUsage,
                                                     l.fileSize)]]
                 /\ pc' = [pc EXCEPT ![p] = "AddStore"]
                 /\ NoReturn
                 /\ UNCHANGED <<files, ramStore, currentRAMUsage, disk, mu,
                                now, sweep, stored>>

\* The storage branch, the insertion into fs.files and the return.
AddFileStore(p) ==
    /\ pc[p] = "AddStore"
    /\ \E outcome \in WriteOutcomes :
         LET l == local[p]
             r == PlaceFile(Store, l.meta, l.fileBytes, l.fileSize, l.inRAM,
                            outcome)
         IN /\ l.inRAM => outcome = "ok"
            /\ SetStore(r.st)
            /\ Return(p, "AddFile", IF r.err = ErrNil THEN l.fileID ELSE 0,
                      [err |-> r.err, meta |-> r.meta, content |-> <<>>])
            /\ stored' = IF r.err = ErrNil
                         THEN Put(stored, l.fileID,
                                  [meta |-> r.meta, bytes |-> l.fileBytes,
                                   seq |-> Cardinality(DOMAIN stored) + 1,
                                   removedBy |-> "none"])
                         ELSE stored
    /\ UNCHANGED <<now, sweep>>

(* ----------------------------- GetFile --------------------------------- *)
\* handleDownload calls fs.GetFile(fileID); the goroutine blocks in Lock().
GetFileCall(p, fileID) ==
    /\ pc[p] = "idle"
    /\ pc' = [pc EXCEPT ![p] = "GetLock"]
    /\ local' = [local EXCEPT ![p] = [NilLocal EXCEPT !.fileID = fileID]]
    /\ NoReturn
    /\ UNCHANGED <<files, ramStore, currentRAMUsage, disk, mu, now, sweep,
                   stored>>

GetFileLock(p) ==
    /\ pc[p] = "GetLock"
    /\ MutexFree(mu)
    /\ mu' = p
    /\ pc' = [pc EXCEPT ![p] = "GetCheck"]
    /\ NoReturn
    /\ UNCHANGED <<files, ramStore, currentRAMUsage, disk, now,
                   local, sweep, stored>>

\* Mutant of GetFileCheck: a record whose file cannot be read is dropped
\* from the metadata table.
GetFileCheck_DropsUnreadable(p) ==
    LET fileID == local[p].fileID IN
    /\ pc[p] = "GetCheck"
    /\ IF fileID \notin DOMAIN files
       THEN /\ Return(p, "GetFile", fileID, Failure(ErrNotFound))
            /\ UNCHANGED files
       ELSE IF Expired(now, files[fileID])
       THEN /\ pc' = [pc EXCEPT ![p] = "GetEvict"]
            /\ NoReturn
            /\ UNCHANGED <<mu, local, files>>
       ELSE LET r == ReadContent(Store, fileID) IN
            /\ Return(p, "GetFile", fileID, r)
            /\ files' = IF r.err = ErrReadDisk
                        THEN Remove(files, fileID) ELSE files
    /\ UNCHANGED <<ramStore, currentRAMUsage, disk, now, sweep, stored>>

\* Mutant of GetFileCheck: the lock is given up between the expiry test and
\* the deletion.
GetFileCheck_UnlocksBeforeEvict(p) ==
    LET fileID == local[p].fileID IN
    /\ pc[p] = "GetCheck"
    /\ IF fileID \notin DOMAIN files
       THEN /\ Return(p, "GetFile", fileID, Failure(ErrNotFound))
       ELSE IF Expired(now, files[fileID])
       THEN /\ pc' = [pc EXCEPT ![p] = "GetEvict"]
            /\ mu' = NoOwner
            /\ NoReturn
            /\ UNCHANGED local
       ELSE /\ Return(p, "GetFile", fileID, ReadContent(Store, fileID))
    /\ UNCHANGED <<files, ramStore, currentRAMUsage, disk, now, sweep,
                   stored>>

\* Mutant of GetFileCheck: a successful read renews the record's expiry.
GetFileCheck_Renews(p) ==
    LET fileID == local[p].fileID IN
    /\ pc[p] = "GetCheck"
    /\ IF fileID \notin DOMAIN files
       THEN /\ Return(p, "GetFile", fileID, Failure(ErrNotFound))
            /\ UNCHANGED files
       ELSE IF Expired(now, files[fileID])
       THEN /\ pc' = [pc EXCEPT ![p] = "GetEvict"]
            /\ NoReturn
            /\ UNCHANGED <<mu, local, files>>
       ELSE /\ Return(p, "GetFile", fileID, ReadContent(Store, fileID))
            /\ files' = [files EXCEPT ![fileID].ExpiryTime =
                                        now + fileExpiryDuration]
    /\ UNCHANGED <<ramStore, currentRAMUsage, disk, now, sweep, stored>>

\* Mutant of GetFileCheck: a Disk-tier record that fits the budget when it
\* is read is moved to RAM.
GetFileCheck_Promotes(p) ==
    LET fileID == local[p].fileID IN
    /\ pc[p] = "GetCheck"
    /\ IF fileID \notin DOMAIN files
       THEN /\ Return(p, "GetFile", fileID, Failure(ErrNotFound))
            /\ UNCHANGED <<files, ramStore, currentRAMUsage>>
       ELSE IF Expired(now, files[fileID])
       THEN /\ pc' = [pc EXCEPT ![p] = "GetEvict"]
            /\ NoReturn
            /\ UNCHANGED <<mu, local, files, ramStore, currentRAMUsage>>
       ELSE LET r == ReadContent(Store, fileID) IN
            /\ Return(p, "GetFile", fileID, r)
            /\ IF /\ r.err = ErrNil
                  /\ ~files[fileID].IsInMemory
                  /\ FitsInRAM(currentRAMUsage, Len(r.content))
               THEN /\ files' = [files EXCEPT ![fileID].IsInMemory = TRUE]
                    /\ ramStore' = Put(ramStore, fileID, r.content)
                    /\ currentRAMUsage' = currentRAMUsage + Len(r.content)
               ELSE UNCHANGED <<files, ramStore, currentRAMUsage>>
    /\ UNCHANGED <<disk, now, sweep, stored>>

\* Mutant of GetFileCheck: an identifier that is not in fs.files is not
\* tested for and falls through to the disk read of an empty path.
GetFileCheck_MissingAsReadError(p) ==
    LET fileID == local[p].fileID IN
    /\ pc[p] = "GetCheck"
    /\ IF fileID \notin DOMAIN files
       THEN /\ Return(p, "GetFile", fileID, Failure(ErrReadDisk))
       ELSE IF Expired(now, files[fileID])
       THEN /\ pc' = [pc EXCEPT ![p] = "GetEvict"]
            /\ NoReturn
            /\ UNCHANGED <<mu, local>>
       ELSE /\ Return(p, "GetFile", fileID, ReadContent(Store, fileID))
    /\ UNCHANGED <<files, ramStore, currentRAMUsage, disk, now, sweep,
                   stored>>

\* The lookup and the expiry test; for a live record also the read.
GetFileCheck(p) ==
    LET fileID == local[p].fileID IN
    /\ pc[p] = "GetCheck"
    /\ IF fileID \notin DOMAIN files
       THEN /\ Return(p, "GetFile", fileID, Failure(ErrNotFound))
       ELSE IF Expired(now, files[fileID])
       THEN /\ pc' = [pc EXCEPT ![p] = "GetEvict"]
            /\ NoReturn
            /\ UNCHANGED <<mu, local>>
       ELSE /\ Return(p, "GetFile", fileID, ReadContent(Store, fileID))
    /\ UNCHANGED <<files, ramStore, currentRAMUsage, disk, now, sweep,
                   stored>>

\* Mutant of GetFileEvict: the expired case has an error of its own.
GetFileEvict_ExpiredError(p) ==
    LET fileID == local[p].fileID IN
    /\ pc[p] = "GetEvict"
    /\ \E rmOk \in BOOLEAN :
         LET st == deleteFileInternal(Store, fileID, rmOk) IN
         /\ SetStore(st)
         /\ stored' = MarkRemoved(st, "GetFile")
    /\ Return(p, "GetFile", fileID, Failure("file expired"))
    /\ UNCHANGED <<now, sweep>>

\* The expired case: deleteFileInternal, then the error return.
GetFileEvict(p) ==
    LET fileID == local[p].fileID IN
    /\ pc[p] = "GetEvict"
    /\ \E rmOk \in BOOLEAN :
         LET st == deleteFileInternal(Store, fileID, rmOk) IN
         /\ SetStore(st)
         /\ stored' = MarkRemoved(st, "GetFile")
    /\ Return(p, "GetFile", fileID, Failure(ErrNotFound))
    /\ UNCHANGED <<now, sweep>>

(* --------------------------- handleDownload ---------------------------- *)
\* The response handleDownload writes for the result r of fs.GetFile: on an
\* error status 404 with the error text, else the content as an attachment
\* named after the converted file.
handleDownload(r) ==
    IF r.err # ErrNil
    THEN [status |-> 404, body |-> r.err, filename |-> <<>>,
          contentLength |-> 0 - 1]
    ELSE [status |-> 200, body |-> r.content,
          filename |-> r.meta.ConvertedName,
          contentLength |-> Len(r.content)]

(* -------------------------- cleanupRoutine ----------------------------- *)
\* A tick of the ticker: the lock is taken and the clock sampled.
SweepLock ==
    /\ sweep.pc = "wait"
    /\ MutexFree(mu)
    /\ mu' = Sweeper
    /\ sweep' = [pc |-> "loop", now |-> now, todo |-> DOMAIN files]
    /\ NoReturn
    /\ UNCHANGED <<files, ramStore, currentRAMUsage, disk, now,
                   pc, local, stored>>

\* Mutant of SweepStep: the loop is left when os.Remove fails.
SweepStep_StopsOnRemoveError ==
    /\ sweep.pc = "loop"
    /\ \E id \in sweep.todo, rmOk \in BOOLEAN :
         LET hit == id \in DOMAIN files /\ Expired(sweep.now, files[id])
             st == IF hit THEN deleteFileInternal(Store, id, rmOk) ELSE Store
         IN /\ SetStore(st)
            /\ stored' = MarkRemoved(st, "cleanupRoutine")
            /\ sweep' = [sweep EXCEPT
                           !.todo = IF hit /\ ~files[id].IsInMemory /\ ~rmOk
                                    THEN {}
                                    ELSE RangeRest(@, id, DOMAIN st.files)]
    /\ NoReturn
    /\ UNCHANGED <<mu, now, pc, local>>

\* One iteration of the range over fs.files.
SweepStep ==
    /\ sweep.pc = "loop"
    /\ \E id \in sweep.todo, rmOk \in BOOLEAN :
         LET st == IF id \in DOMAIN files /\ Expired(sweep.now, files[id])
                   THEN deleteFileInternal(Store, id, rmOk)
                   ELSE Store
         IN /\ SetStore(st)
            /\ stored' = MarkRemoved(st, "cleanupRoutine")
            /\ sweep' = [sweep EXCEPT
                           !.todo = RangeRest(@, id, DOMAIN st.files)]
    /\ NoReturn
    /\ UNCHANGED <<mu, now, pc, local>>

\* The range is exhausted: fs.mu.Unlock() and back to waiting for a tick.
SweepUnlock ==
    /\ sweep.pc = "loop"
    /\ sweep.todo = {}
    /\ mu' = NoOwner
    /\ sweep' = SweepIdle
    /\ NoReturn
    /\ UNCHANGED <<files, ramStore, currentRAMUsage, disk, now,
                   pc, local, stored>>

(* ------------------------------ clock ---------------------------------- *)
Tick ==
    /\ now < MaxTime
    /\ now' = now + 1
    /\ NoReturn
    /\ UNCHANGED <<files, ramStore, currentRAMUsage, disk, mu,
                   pc, local, sweep, stored>>

Next ==
    \/ \E p \in Procs : AddFileCall(p)
    \/ \E p \in Procs : AddFileLock(p)
    \/ \E p \in Procs : AddFileRead(p)
    \/ \E p \in Procs : AddFileConvert(p)
    \/ \E p \in Procs : AddFileStore(p)
    \/ \E p \in Procs, fileID \in IDs : GetFileCall(p, fileID)
    \/ \E p \in Procs : GetFileLock(p)
    \/ \E p \in Procs : GetFileCheck(p)
    \/ \E p \in Procs : GetFileEvict(p)
    \/ SweepLock
    \/ SweepStep
    \/ SweepUnlock
    \/ Tick

Spec == Init /\ [][Next]_vars

(* ------------------- the upload directory is shared -------------------- *)
\* fs.diskPath is an ordinary directory: something other than the store
\* removes a file from it.
ExternalRemove ==
    /\ \E path \in DOMAIN disk : disk' = Remove(disk, path)
    /\ NoReturn
    /\ UNCHANGED <<files, ramStore, currentRAMUsage, mu, now, pc, local,
                   sweep, stored>>

NextExt ==
    \/ Next
    \/ ExternalRemove

\* The store in an environment that may remove files under it.
SpecExt == Init /\ [][NextExt]_vars

(* ----------------------------- scheduling ------------------------------ *)
\* The step of AddFile past the conversion branch when no target format is
\* given: no converter is called.
AddFileNoConversion(p) == AddFileConvert(p) /\ local[p].targetFormat = ""

\* What the Go runtime guarantees.  A runnable goroutine runs, the ticker
\* ticks, and a goroutine waiting in Lock() gets the mutex if it is free
\* again and again; reads, writes and removals of local files return.
\* performConversion waits for an external converter without a timeout:
\* nothing guarantees that it returns.
Fairness ==
    /\ \A p \in Procs :
          /\ SF_vars(AddFileLock(p))
          /\ SF_vars(GetFileLock(p))
          /\ WF_vars(AddFileRead(p))
          /\ WF_vars(AddFileNoConversion(p))
          /\ WF_vars(AddFileStore(p))
          /\ WF_vars(GetFileCheck(p))
          /\ WF_vars(GetFileEvict(p))
    /\ SF_vars(SweepLock)
    /\ WF_vars(SweepStep)
    /\ WF_vars(SweepUnlock)

SpecFair == Init /\ [][Next]_vars /\ Fairness

\* The same scheduling with a clock that keeps advancing.
SpecFairClock == SpecFair /\ WF_vars(Tick)


(* ------------------- definitions used by the properties ---------------- *)
\* Identifiers of the Memory-tier records of the metadata table.
MemIDs == {id \in DOMAIN files : files[id].IsInMemory}

\* The payload held for record id of store st: its content-table entry or
\* its disk file; <<-1>> when there is none.
ContentOf(st, id) ==
    LET m == st.files[id] IN
    IF m.IsInMemory
    THEN IF id \in DOMAIN st.ramStore THEN st.ramStore[id] ELSE <<0 - 1>>
    ELSE IF m.Path \in DOMAIN st.disk THEN st.disk[m.Path] ELSE <<0 - 1>>

RECURSIVE SumSize(_)
SumSize(S) ==
    IF S = {} THEN 0
    ELSE LET id == CHOOSE x \in S : TRUE
         IN files[id].Size + SumSize(S \ {id})

\* A call of GetFile by p returns in this step.
GetReturns(p) == pc[p] \in {"GetCheck", "GetEvict"} /\ pc'[p] = "idle"

\* A call of AddFile by p returns successfully in this step.
AddSucceeds(p) ==
    pc[p] = "AddStore" /\ pc'[p] = "idle" /\ ret'.proc = p /\ ret'.err = ErrNil

NotFoundRet(p, fileID) ==
    [proc |-> p, op |-> "GetFile", fileID |-> fileID, err |-> ErrNotFound,
     meta |-> NilMeta, content |-> <<>>]

(* ------------------------------- C1 ------------------------------------ *)
\* C1: in every reachable state currentRAMUsage equals the sum of
\* FileMetadata.Size over the Memory-tier records of the metadata table.
C1_UsageIsSumOfSizes == currentRAMUsage = SumSize(MemIDs)

(* ------------------------------- C2 ------------------------------------ *)
\* C2: for every record of the metadata table, FileMetadata.Size equals the
\* length of the payload stored for it, also after a conversion that changed
\* the length.
C2_SizeIsStoredLength ==
    \A id \in DOMAIN files : files[id].Size = Len(ContentOf(Store, id))


(* ------------------------------- C3 ------------------------------------ *)
\* C3: AddFile places the blob in the Memory tier if and only if
\* currentRAMUsage + size <= ramLimitBytes at admission, where size is the
\* length of the bytes actually stored; otherwise the blob is on Disk.  In
\* both cases the stored bytes are the bytes AddFile was about to store.
C3_PlacementRule ==
    [][\A p \in Procs : AddSucceeds(p) =>
         LET id == local[p].fileID
             m == files'[id]
             bytes == ContentOf(Store', id)
         IN /\ id \notin DOMAIN files
            /\ bytes = local[p].fileBytes
            /\ m.IsInMemory <=>
                   (currentRAMUsage + Len(bytes) <= ramLimitBytes)
            /\ m.IsInMemory => id \in DOMAIN ramStore' /\ m.Path = NoPath
            /\ ~m.IsInMemory => id \notin DOMAIN ramStore'
                                  /\ m.Path \in DOMAIN disk']_vars

\* A blob that exactly fills the budget is in Memory, and a blob that would
\* have fitted an empty store is on Disk.
C3_Witness ==
    /\ \E id \in MemIDs : Len(ramStore[id]) = ramLimitBytes
    /\ \E id \in DOMAIN files \ MemIDs :
          /\ files[id].Path \in DOMAIN disk
          /\ Len(disk[files[id].Path]) <= ramLimitBytes
          /\ Len(disk[files[id].Path]) > 0

(* ------------------------------- C4 ------------------------------------ *)
\* C4: a GetFile of an identifier returned by a successful AddFile, issued
\* before the record's ExpiryTime, succeeds and returns the bytes AddFile
\* stored and the record AddFile returned, for both tiers; and AddFile
\* returns the record it inserted.
C4_RoundTrip ==
    [][\A p \in Procs :
         /\ (GetReturns(p) /\ local[p].fileID \in DOMAIN stored
               /\ now < stored[local[p].fileID].meta.ExpiryTime)
            => ret' = [proc |-> p, op |-> "GetFile",
                       fileID |-> local[p].fileID, err |-> ErrNil,
                       meta |-> stored[local[p].fileID].meta,
                       content |-> stored[local[p].fileID].bytes]
         /\ AddSucceeds(p)
            => /\ ret'.meta = files'[local[p].fileID]
               /\ ret'.fileID = local[p].fileID
               /\ stored'[local[p].fileID].meta = ret'.meta
               /\ stored'[local[p].fileID].bytes = local[p].fileBytes]_vars

\* A GetFile returned a Disk-tier blob that is larger than the whole budget.
C4_Witness ==
    /\ ret.op = "GetFile"
    /\ ret.err = ErrNil
    /\ ~ret.meta.IsInMemory
    /\ Len(ret.content) > ramLimitBytes
    /\ now < ret.meta.ExpiryTime

(* ------------------------------- C5 ------------------------------------ *)
\* C5: a GetFile for a record whose ExpiryTime has passed returns the
\* not-found error and no bytes, whether or not a sweep removed the record;
\* a successful GetFile never returns a record whose ExpiryTime has passed.
C5_LazyExpiry ==
    [][/\ \A p \in Procs :
            (GetReturns(p) /\ local[p].fileID \in DOMAIN stored
               /\ now > stored[local[p].fileID].meta.ExpiryTime)
            => ret' = NotFoundRet(p, local[p].fileID)
       /\ (ret'.op = "GetFile" /\ ret'.err = ErrNil)
            => ~(now' > ret'.meta.ExpiryTime)]_vars

\* A GetFile returned not-found for a record that no sweep had removed: the
\* call itself evicted it.
C5_Witness ==
    /\ ret.op = "GetFile"
    /\ ret.err = ErrNotFound
    /\ ret.fileID \in DOMAIN stored
    /\ stored[ret.fileID].removedBy = "GetFile"


(* ------------------------------- C6 ------------------------------------ *)
\* The bytes record id of the metadata table holds in the usage counter.
ShareOf(id) ==
    IF files[id].IsInMemory /\ id \in DOMAIN ramStore
    THEN Len(ramStore[id]) ELSE 0

\* C6 as stated: when GetFile finds an expired record, the metadata entry,
\* the content-table entry or the disk file, and the record's share of the
\* counter are all gone when GetFile returns the error.
C6_FullyRemoved ==
    [][\A p \in Procs : (pc[p] = "GetEvict" /\ pc'[p] = "idle") =>
         LET id == local[p].fileID IN
         /\ id \notin DOMAIN files'
         /\ id \notin DOMAIN ramStore'
         /\ ~files[id].IsInMemory => files[id].Path \notin DOMAIN disk'
         /\ currentRAMUsage' = currentRAMUsage - ShareOf(id)
         /\ ret' = NotFoundRet(p, id)]_vars

\* C6 as amended: when GetFile finds an expired record, the metadata entry,
\* the content-table entry and the record's share of the counter are gone
\* when GetFile returns the error; the disk file is gone unless os.Remove
\* failed, and then it is left as it was.  GetFile does not return between
\* the expiry test and the removal, holds the lock throughout, and no step
\* of any goroutine changes the store between the test and the removal.
C6_EvictAtomic ==
    [][\A p \in Procs :
         LET id == local[p].fileID IN
         /\ (pc[p] = "GetCheck" /\ id \in DOMAIN files
               /\ now > files[id].ExpiryTime)
            => pc'[p] \in {"GetCheck", "GetEvict"}
         /\ pc[p] = "GetEvict"
            => /\ mu = p
               /\ id \in DOMAIN files
               /\ pc'[p] \in {"GetEvict", "idle"}
         /\ (pc[p] = "GetEvict" /\ pc'[p] = "GetEvict")
            => UNCHANGED <<files, ramStore, currentRAMUsage, disk>>
         /\ (pc[p] = "GetEvict" /\ pc'[p] = "idle")
            => /\ files' = Remove(files, id)
               /\ ramStore' = Remove(ramStore, id)
               /\ currentRAMUsage' = currentRAMUsage - ShareOf(id)
               /\ \/ disk' = disk
                  \/ /\ ~files[id].IsInMemory
                     /\ disk' = Remove(disk, files[id].Path)
               /\ ret' = NotFoundRet(p, id)]_vars

\* GetFile evicted an expired record while another GetFile for the same
\* identifier was blocked on the lock.
C6_Witness ==
    /\ ret.op = "GetFile"
    /\ ret.err = ErrNotFound
    /\ ret.fileID \in DOMAIN stored
    /\ stored[ret.fileID].removedBy = "GetFile"
    /\ \E q \in Procs : pc[q] = "GetLock" /\ local[q].fileID = ret.fileID

(* ------------------------------- C7 ------------------------------------ *)
\* C7: when a sweep releases the lock, the metadata table holds no record
\* whose ExpiryTime was before the instant the sweep sampled.
C7_SweepLeavesNoExpired ==
    [][(sweep.pc = "loop" /\ sweep'.pc = "wait") =>
         \A id \in DOMAIN files' : ~(sweep.now > files'[id].ExpiryTime)]_vars

\* A sweep is about to release the lock after deleting two expired records.
C7_Witness ==
    /\ sweep.pc = "loop"
    /\ sweep.todo = {}
    /\ Cardinality({id \in DOMAIN stored :
                      stored[id].removedBy = "cleanupRoutine"}) >= 2

(* ------------------------------- C8 ------------------------------------ *)
\* C8: in every reachable store, deleteFileInternal on an identifier that is
\* not in the metadata table changes nothing, and deleting a record a second
\* time changes nothing: the counter is decremented once per record.
C8_DeleteIdempotent ==
    \A rm1 \in BOOLEAN, rm2 \in BOOLEAN :
      /\ \A id \in IDs \ DOMAIN files :
            deleteFileInternal(Store, id, rm1) = Store
      /\ \A id \in DOMAIN files :
            LET once == deleteFileInternal(Store, id, rm1) IN
            /\ deleteFileInternal(once, id, rm2) = once
            /\ once.currentRAMUsage = currentRAMUsage - ShareOf(id)

\* One record was deleted already, another identifier never existed or is
\* a live Memory-tier record that holds bytes of the counter.
C8_Witness ==
    /\ \E id \in DOMAIN stored : id \notin DOMAIN files
    /\ \E id \in MemIDs : Len(ramStore[id]) > 0
    /\ currentRAMUsage > 0

(* ------------------------------- C9 ------------------------------------ *)
\* The identifier of the k-th successfully admitted upload.
Admitted(k) == CHOOSE id \in DOMAIN stored : stored[id].seq = k

\* The usage counter after a serial execution of the first k admitted
\* uploads under the placement rule.
RECURSIVE SerialUsage(_)
SerialUsage(k) ==
    IF k = 0 THEN 0
    ELSE LET u == SerialUsage(k - 1)
             size == Len(stored[Admitted(k)].bytes)
         IN IF u + size <= ramLimitBytes THEN u + size ELSE u

\* C9: as long as no record was removed, the outcome of the uploads under
\* any interleaving is that of their serial execution in admission order:
\* the k-th blob is in Memory exactly when the usage after the first k-1
\* plus its size is within the budget, and the counter is the sum of the
\* sizes of the blobs in Memory.
C9_SerialAdmission ==
    (\A id \in DOMAIN stored :
        stored[id].removedBy = "none" /\ id \in DOMAIN files)
    => /\ \A k \in 1..Cardinality(DOMAIN stored) :
            LET id == Admitted(k)
                size == Len(stored[id].bytes)
            IN /\ files[id].IsInMemory <=>
                     (SerialUsage(k - 1) + size <= ramLimitBytes)
               /\ ContentOf(Store, id) = stored[id].bytes
       /\ currentRAMUsage = SerialUsage(Cardinality(DOMAIN stored))

\* Two blobs that fit the budget one by one but not together: the first
\* admitted is in Memory, the second on Disk.
C9_Witness ==
    /\ Cardinality(DOMAIN stored) = 2
    /\ \A id \in DOMAIN stored :
          /\ stored[id].removedBy = "none"
          /\ Len(stored[id].bytes) > 0
          /\ Len(stored[id].bytes) <= ramLimitBytes
    /\ Len(stored[Admitted(1)].bytes) + Len(stored[Admitted(2)].bytes)
          > ramLimitBytes
    /\ files[Admitted(1)].IsInMemory
    /\ ~files[Admitted(2)].IsInMemory
    /\ currentRAMUsage = Len(stored[Admitted(1)].bytes)

(* ------------------------------- C10 ----------------------------------- *)
\* C10: from the moment AddFile holds the lock, every step that is not its
\* successful return leaves the metadata table, the content table and the
\* counter unchanged, the attempted identifier is in neither table, and a
\* failed AddFile returns no record.
C10_FailedPutLeavesNoTrace ==
    [][\A p \in Procs :
         /\ (pc[p] \in {"AddRead", "AddConvert", "AddStore"}
               /\ ~AddSucceeds(p))
            => UNCHANGED <<files, ramStore, currentRAMUsage>>
         /\ pc[p] \in {"AddConvert", "AddStore"}
            => /\ local[p].fileID \notin DOMAIN files
               /\ local[p].fileID \notin DOMAIN ramStore
         /\ (pc[p] \in {"AddRead", "AddConvert", "AddStore"}
               /\ pc'[p] = "idle" /\ ~AddSucceeds(p))
            => /\ ret'.proc = p
               /\ ret'.err \in {ErrGenerateID, ErrReadContent,
                                ErrConversion, ErrWriteDisk}
               /\ ret'.meta = NilMeta
               /\ ret'.fileID \notin DOMAIN files']_vars

\* An AddFile failed on the disk write while the store held a record.
C10_Witness ==
    /\ ret.op = "AddFile"
    /\ ret.err = ErrWriteDisk
    /\ currentRAMUsage > 0
    /\ DOMAIN files # {}


(* ------------------------------- C11 ----------------------------------- *)
\* C11: AddFile never fails because of the size of the blob.  Once the
\* bytes are read, the conversion step fails only on a conversion error;
\* the storage step can always succeed, whatever the size and the usage,
\* and fails only on the disk write of a blob routed to Disk, which then
\* leaves no record.
C11_NeverRejectedForSize ==
    [][\A p \in Procs :
         /\ pc[p] = "AddStore"
            => ENABLED (AddFileStore(p) /\ ret'.err = ErrNil)
         /\ (pc[p] = "AddConvert" /\ pc'[p] = "idle")
            => ret'.err = ErrConversion /\ local[p].targetFormat # ""
         /\ (pc[p] = "AddConvert" /\ local[p].targetFormat = "")
            => pc'[p] \in {"AddConvert", "AddStore"}
         /\ (pc[p] = "AddStore" /\ pc'[p] = "idle" /\ ret'.err # ErrNil)
            => /\ ret'.err = ErrWriteDisk
               /\ ~local[p].inRAM
               /\ ~FitsInRAM(currentRAMUsage, local[p].fileSize)
               /\ DiskFilePath(local[p].fileID, local[p].meta.ConvertedName)
                     \notin DOMAIN disk']_vars

\* An empty payload was accepted and a blob larger than the whole budget
\* was stored on Disk.
C11_Witness ==
    /\ \E id \in DOMAIN files : ContentOf(Store, id) = <<>>
    /\ \E id \in DOMAIN files :
          /\ ~files[id].IsInMemory
          /\ Len(ContentOf(Store, id)) > ramLimitBytes

(* ------------------------------- C12 ----------------------------------- *)
\* C12: every Memory-tier record of the metadata table has its entry in the
\* content table, under the record's own identifier, holding the bytes
\* AddFile stored.
C12_MemoryRecordHasContent ==
    \A id \in MemIDs :
       /\ files[id].ID = id
       /\ id \in DOMAIN ramStore
       /\ ramStore[id] = stored[id].bytes

\* A Memory-tier record is in the table after another record was deleted.
C12_Witness ==
    /\ MemIDs # {}
    /\ \E id \in DOMAIN stored : stored[id].removedBy # "none"

(* ------------------------------- C14 ----------------------------------- *)
\* C14: a step that deletes a Memory-tier record removes its content-table
\* entry and lowers currentRAMUsage by exactly that record's
\* FileMetadata.Size.
C14_DeleteReleasesSize ==
    [][\A id \in MemIDs :
         id \notin DOMAIN files'
            => /\ id \notin DOMAIN ramStore'
               /\ currentRAMUsage' = currentRAMUsage - files[id].Size]_vars

(* ------------------------------- C15 ----------------------------------- *)
\* The deletion of record id by GetFile or by the sweeper is executed in
\* this step.
Deletes(id) ==
    /\ id \in DOMAIN files
    /\ \/ \E p \in Procs : /\ pc[p] = "GetEvict"
                           /\ local[p].fileID = id
                           /\ pc'[p] = "idle"
       \/ /\ sweep.pc = "loop"
          /\ id \in sweep.todo
          /\ id \notin sweep'.todo
          /\ Expired(sweep.now, files[id])

\* C15: the deletion of a Disk-tier record removes its metadata entry
\* whether or not the removal of its file succeeds: the file is then either
\* gone or left as it was, nothing else on disk changes, and a GetFile that
\* ran the deletion still returns its ordinary not-found result.
C15_MetadataRemovedRegardless ==
    [][\A id \in DOMAIN files :
         (Deletes(id) /\ ~files[id].IsInMemory)
            => /\ id \notin DOMAIN files'
               /\ \/ disk' = disk
                  \/ disk' = Remove(disk, files[id].Path)
               /\ \A p \in Procs :
                     (pc[p] = "GetEvict" /\ pc'[p] = "idle")
                        => ret' = NotFoundRet(p, id)]_vars

\* A deleted Disk-tier record whose file is still on disk: its removal
\* failed.
C15_Witness ==
    \E path \in DOMAIN disk :
       /\ path[1] \in DOMAIN stored
       /\ stored[path[1]].removedBy # "none"
       /\ path[1] \notin DOMAIN files

(* ------------------------------- C16 ----------------------------------- *)
\* C16: GetFile of an identifier that is not in the metadata table returns
\* the not-found error, with no metadata and no content, and leaves the
\* metadata table, the content table, the usage counter and the disk as
\* they were.
C16_UnknownIsNotFound ==
    [][\A p \in Procs :
         (pc[p] = "GetCheck" /\ local[p].fileID \notin DOMAIN files)
            => \/ pc'[p] = "GetCheck"
               \/ /\ pc'[p] = "idle"
                  /\ ret' = NotFoundRet(p, local[p].fileID)
                  /\ UNCHANGED <<files, ramStore, currentRAMUsage, disk>>]_vars

\* GetFile returned not-found for an identifier no record ever had, while
\* the store holds a record.
C16_Witness ==
    /\ ret.op = "GetFile"
    /\ ret.err = ErrNotFound
    /\ ret.fileID \notin DOMAIN stored
    /\ DOMAIN files # {}

(* ------------------------------- C17 ----------------------------------- *)
\* C17: GetFile returns one and the same value, and handleDownload writes
\* one and the same response, for an identifier no record ever had and for
\* an identifier whose record has expired, be the record still in the table
\* at the call or already deleted: the not-found error with no metadata and
\* no content.
C17_ExpiredLooksUnknown ==
    (/\ ret.op = "GetFile"
     /\ \/ ret.fileID \notin DOMAIN stored
        \/ After(now, stored[ret.fileID].meta.ExpiryTime))
       => /\ ret = NotFoundRet(ret.proc, ret.fileID)
          /\ handleDownload(ret) = handleDownload(Failure(ErrNotFound))

\* GetFile has just evicted an expired record and returned, while another
\* identifier never had a record.
C17_Witness ==
    /\ ret.op = "GetFile"
    /\ ret.fileID \in DOMAIN stored
    /\ stored[ret.fileID].removedBy = "GetFile"
    /\ After(now, stored[ret.fileID].meta.ExpiryTime)
    /\ IDs \ DOMAIN stored # {}

(* ------------------------------- C18 ----------------------------------- *)
\* The goroutines between fs.mu.Lock() and fs.mu.Unlock().
InCS ==
    {p \in Procs :
        pc[p] \in {"AddRead", "AddConvert", "AddStore", "GetCheck", "GetEvict"}}
      \cup (IF sweep.pc = "loop" THEN {Sweeper} ELSE {})

\* C18: at most one of AddFile, GetFile (its eviction path included) and a
\* sweeper tick is inside its critical section, and it is the holder of
\* fs.mu; the metadata table, the content table, the usage counter and the
\* disk change only in steps of that holder, so deleteFileInternal runs
\* only under the lock.
C18_MutualExclusion ==
    [][/\ InCS = (IF mu = NoOwner THEN {} ELSE {mu})
       /\ InCS' = (IF mu' = NoOwner THEN {} ELSE {mu'})
       /\ Store' # Store
            => /\ mu # NoOwner
               /\ mu \in Procs => pc'[mu] # pc[mu]
               /\ mu = Sweeper => sweep' # sweep]_vars

\* The sweeper is inside its loop over a non-empty table while one
\* goroutine waits for the lock in AddFile and another in GetFile.
C18_Witness ==
    /\ sweep.pc = "loop"
    /\ sweep.todo # {}
    /\ \E p, q \in Procs : pc[p] = "AddLock" /\ pc[q] = "GetLock"

(* ------------------------------- C19 ----------------------------------- *)
\* C19: as long as a record is in the metadata table its tier and its
\* location are the ones it was created with: no step changes IsInMemory or
\* Path, a Memory-tier record keeps its content-table entry, a Disk-tier
\* record has none, also when it would by now fit the budget.
C19_TierAndLocationFixed ==
    [][\A id \in DOMAIN files :
         /\ files[id].IsInMemory = stored[id].meta.IsInMemory
         /\ files[id].Path = stored[id].meta.Path
         /\ files[id].IsInMemory <=> id \in DOMAIN ramStore
         /\ ~files[id].IsInMemory
               => files[id].Path = DiskFilePath(id, files[id].ConvertedName)
         /\ id \in DOMAIN files'
               => /\ files'[id].IsInMemory = files[id].IsInMemory
                  /\ files'[id].Path = files[id].Path
                  /\ files'[id].ID = id
                  /\ (id \in DOMAIN ramStore') = (id \in DOMAIN ramStore)]_vars

\* GetFile has just read a Disk-tier record that would fit the budget now,
\* after another record was deleted, and the record is still on Disk.
C19_Witness ==
    /\ ret.op = "GetFile"
    /\ ret.err = ErrNil
    /\ ret.fileID \in DOMAIN files
    /\ ~files[ret.fileID].IsInMemory
    /\ Len(ret.content) > 0
    /\ FitsInRAM(currentRAMUsage, Len(ret.content))
    /\ \E id \in DOMAIN stored : stored[id].removedBy # "none"

(* ------------------------------- C20 ----------------------------------- *)
\* C20: while AddFile holds the lock, every record of the metadata table
\* stays in it with the same metadata and the same content, in RAM or on
\* disk; a failed AddFile leaves the tables and the counter as they were, a
\* successful one adds only the new record, and the counter grows by the
\* length of the stored bytes if the record went to RAM and not at all
\* otherwise.
C20_PutDisplacesNothing ==
    [][\A p \in Procs :
         pc[p] \in {"AddRead", "AddConvert", "AddStore"}
            => /\ \A id \in DOMAIN files :
                    /\ id \in DOMAIN files'
                    /\ files'[id] = files[id]
                    /\ ContentOf(Store', id) = ContentOf(Store, id)
               /\ IF AddSucceeds(p)
                  THEN LET id == local[p].fileID IN
                       /\ DOMAIN files' = DOMAIN files \cup {id}
                       /\ DOMAIN ramStore' \subseteq DOMAIN ramStore \cup {id}
                       /\ currentRAMUsage' = currentRAMUsage
                            + (IF files'[id].IsInMemory
                               THEN Len(local[p].fileBytes) ELSE 0)
                  ELSE UNCHANGED <<files, ramStore, currentRAMUsage>>]_vars

\* AddFile has just stored a blob on Disk because it did not fit beside a
\* Memory-tier record, which is still there.
C20_Witness ==
    /\ ret.op = "AddFile"
    /\ ret.err = ErrNil
    /\ ~ret.meta.IsInMemory
    /\ Len(ContentOf(Store, ret.fileID)) <= ramLimitBytes
    /\ MemIDs # {}

(* ------------------------------- C21 ----------------------------------- *)
\* C21: no step of GetFile, successful or failed, changes the ExpiryTime of
\* a record that stays in the metadata table, so every record keeps the
\* ExpiryTime it was created with, and GetFile succeeds only while the
\* clock has not passed that creation-time ExpiryTime.
C21_GetNeverExtends ==
    [][/\ \A id \in DOMAIN files :
            /\ files[id].ExpiryTime = stored[id].meta.ExpiryTime
            /\ id \in DOMAIN files'
                  => files'[id].ExpiryTime = files[id].ExpiryTime
       /\ \A p \in Procs :
            (GetReturns(p) /\ ret'.err = ErrNil)
               => ~After(now, stored[ret'.fileID].meta.ExpiryTime)]_vars

\* GetFile has just succeeded on a record at the last instant of its life,
\* later than its upload, and the record's ExpiryTime is still the one it
\* was created with.
C21_Witness ==
    /\ ret.op = "GetFile"
    /\ ret.err = ErrNil
    /\ now > ret.meta.UploadTime
    /\ now = ret.meta.ExpiryTime
    /\ files[ret.fileID].ExpiryTime = stored[ret.fileID].meta.ExpiryTime

(* ------------------------------- C22 ----------------------------------- *)
\* C22: for every record of the metadata table ExpiryTime equals
\* UploadTime + fileExpiryDuration exactly.
C22_ExpiryIsUploadPlusTTL ==
    \A id \in DOMAIN files :
       files[id].ExpiryTime = files[id].UploadTime + fileExpiryDuration

(* ------------------------------- C23 ----------------------------------- *)
\* C23: GetFile on a Disk-tier record that has not expired reads the file
\* as it is at that call: it returns the record with the bytes in the file,
\* and when the file is gone it fails with the disk-read error, which is
\* not the not-found error; either way the record stays in the table.
C23_DiskReadEveryCall ==
    [][\A p \in Procs :
         LET id == local[p].fileID IN
         (/\ pc[p] = "GetCheck"
          /\ pc'[p] = "idle"
          /\ id \in DOMAIN files
          /\ ~files[id].IsInMemory
          /\ ~Expired(now, files[id]))
            => /\ IF files[id].Path \in DOMAIN disk
                  THEN /\ ret'.err = ErrNil
                       /\ ret'.meta = files[id]
                       /\ ret'.content = disk[files[id].Path]
                  ELSE /\ ret'.err = ErrReadDisk
                       /\ ret'.err # ErrNotFound
                       /\ ret'.meta = NilMeta
                       /\ ret'.content = <<>>
               /\ UNCHANGED <<files, ramStore, currentRAMUsage, disk>>]_vars

\* GetFile has just failed with the disk-read error on a record that is in
\* the table and has not expired, after an earlier removal of its file.
C23_Witness ==
    /\ ret.op = "GetFile"
    /\ ret.err = ErrReadDisk
    /\ ret.fileID \in DOMAIN files
    /\ ~files[ret.fileID].IsInMemory
    /\ ~Expired(now, files[ret.fileID])
    /\ files[ret.fileID].Path \notin DOMAIN disk

(* ------------------------------- C26 ----------------------------------- *)
\* C26: the response to a download is a success exactly when GetFile
\* succeeded, the not-found response exactly when GetFile reported an
\* unknown or expired identifier, and an internal error otherwise: a failed
\* read of a live Disk-tier record is answered with the internal error, not
\* with not-found.
C26_ThreeOutcomes ==
    ret.op = "GetFile"
       => LET resp == handleDownload(ret) IN
          /\ resp.status \in {200, 404, 500}
          /\ resp.status = 200 <=> ret.err = ErrNil
          /\ resp.status = 404 <=> ret.err = ErrNotFound
          /\ ret.err = ErrReadDisk => resp.status = 500

(* ------------------------------- C27 ----------------------------------- *)
\* C27: whenever GetFile looks a Memory-tier record up, the record's
\* content is in the content table and is the bytes AddFile stored; if the
\* record has not expired GetFile returns them.  No call of GetFile ever
\* returns the metadata-inconsistency error.
C27_NeverHalfVisible ==
    [][\A p \in Procs :
         LET id == local[p].fileID IN
         /\ (pc'[p] = "idle" /\ ret'.proc = p) => ret'.err # ErrInconsistent
         /\ (pc[p] \in {"GetCheck", "GetEvict"}
               /\ id \in DOMAIN files /\ files[id].IsInMemory)
              => /\ id \in DOMAIN ramStore
                 /\ ramStore[id] = stored[id].bytes
                 /\ (pc'[p] = "idle" /\ ~Expired(now, files[id]))
                       => /\ ret'.err = ErrNil
                          /\ ret'.content = stored[id].bytes]_vars

\* GetFile has just returned a Memory-tier record with its bytes, after the
\* sweeper deleted an expired record, while another goroutine waits for the
\* lock to read the same record.
C27_Witness ==
    /\ ret.op = "GetFile"
    /\ ret.err = ErrNil
    /\ ret.meta.IsInMemory
    /\ ret.content = stored[ret.fileID].bytes
    /\ \E q \in Procs : pc[q] = "GetLock" /\ local[q].fileID = ret.fileID
    /\ \E id \in DOMAIN stored : stored[id].removedBy = "cleanupRoutine"

(* ------------------------------- C28 ----------------------------------- *)
\* C28: when only the store touches the upload directory, every Disk-tier
\* record of the metadata table has its file on disk, at the path derived
\* from its identifier, holding the bytes AddFile stored, and GetFile never
\* returns the disk-read error.
C28_DiskRecordHasFile ==
    /\ \A id \in DOMAIN files :
          ~files[id].IsInMemory
             => /\ files[id].Path \in DOMAIN disk
                /\ disk[files[id].Path] = stored[id].bytes
    /\ ret.err # ErrReadDisk

\* GetFile has just read a Disk-tier record from its file after another
\* Disk-tier record was deleted and left its file behind.
C28_Witness ==
    /\ ret.op = "GetFile"
    /\ ret.err = ErrNil
    /\ ~ret.meta.IsInMemory
    /\ \E id \in DOMAIN stored : stored[id].removedBy # "none"
    /\ Cardinality(DOMAIN disk) = 2

(* ------------------------------- C24 ----------------------------------- *)
\* C24: the scenario in its general form.  Of two uploads whose records are
\* both in the table, the first fitting the budget and the second not
\* fitting beside it, the first is in Memory and the second on Disk;
\* GetFile succeeds only before the expiry and then returns the stored
\* bytes; once the expiry has passed GetFile returns not-found and the
\* record is gone; and when the metadata table is empty the usage counter
\* is 0 and the content table is empty.
C24_ScenarioGeneralForm ==
    /\ \A a \in DOMAIN files, b \in DOMAIN files :
          (/\ stored[a].seq = 1
           /\ stored[b].seq = 2
           /\ Len(stored[a].bytes) <= ramLimitBytes
           /\ Len(stored[a].bytes) + Len(stored[b].bytes) > ramLimitBytes)
             => files[a].IsInMemory /\ ~files[b].IsInMemory
    /\ (ret.op = "GetFile" /\ ret.err = ErrNil)
          => /\ ret.content = stored[ret.fileID].bytes
             /\ ~After(now, stored[ret.fileID].meta.ExpiryTime)
    /\ (/\ ret.op = "GetFile"
        /\ ret.fileID \in DOMAIN stored
        /\ After(now, stored[ret.fileID].meta.ExpiryTime))
          => ret.err = ErrNotFound /\ ret.fileID \notin DOMAIN files
    /\ files = <<>> => currentRAMUsage = 0 /\ ramStore = <<>>

\* Both records have expired and been evicted, the last one by the GetFile
\* that has just returned not-found; the counter is 0, the tables are
\* empty, and a file is left of the one that was on Disk.
C24_Witness ==
    /\ ret.op = "GetFile"
    /\ ret.err = ErrNotFound
    /\ ret.fileID \in DOMAIN stored
    /\ stored[ret.fileID].removedBy = "GetFile"
    /\ \A id \in IDs : id \in DOMAIN stored /\ stored[id].removedBy # "none"
    /\ files = <<>>
    /\ ramStore = <<>>
    /\ currentRAMUsage = 0
    /\ Cardinality(DOMAIN disk) = 1

(* ------------------------------- C29 ----------------------------------- *)
\* C29: a record is deleted once.  The step that takes a record out of the
\* metadata table is the one deletion attributed to it: it lowers the
\* counter by the length of the record's content entry and removes that
\* entry.  A GetFile that found the record expired still finds it when it
\* deletes it, and the sweeper only visits records of the table; after the
\* deletion the identifier stays out of the table, and every later GetFile
\* on it returns the ordinary not-found result and changes nothing.
C29_RemovedExactlyOnce ==
    [][/\ \A p \in Procs :
             pc'[p] = "GetEvict" => local'[p].fileID \in DOMAIN files'
       /\ sweep'.pc = "loop" => sweep'.todo \subseteq DOMAIN files'
       /\ \A id \in DOMAIN files :
             id \notin DOMAIN files'
                => /\ stored[id].removedBy = "none"
                   /\ stored'[id].removedBy \in {"GetFile", "cleanupRoutine"}
                   /\ currentRAMUsage' = currentRAMUsage - ShareOf(id)
                   /\ id \notin DOMAIN ramStore'
                   /\ \A other \in DOMAIN files \ {id} :
                         other \in DOMAIN files'
       /\ \A id \in DOMAIN stored :
             stored[id].removedBy # "none"
                => /\ id \notin DOMAIN files'
                   /\ stored'[id] = stored[id]
                   /\ \A p \in Procs :
                        (GetReturns(p) /\ local[p].fileID = id)
                           => /\ ret' = NotFoundRet(p, id)
                              /\ UNCHANGED <<files, ramStore,
                                             currentRAMUsage, disk>>]_vars

\* GetFile has just returned not-found for an expired record the sweeper
\* had deleted, while another goroutine waits for the lock to get the same
\* identifier.
C29_Witness ==
    /\ ret.op = "GetFile"
    /\ ret.err = ErrNotFound
    /\ ret.fileID \in DOMAIN stored
    /\ stored[ret.fileID].removedBy = "cleanupRoutine"
    /\ \E q \in Procs : pc[q] = "GetLock" /\ local[q].fileID = ret.fileID

(* ------------------------------- C30 ----------------------------------- *)
\* C30: during a tick every record that had expired when the tick sampled
\* the clock is either deleted or still to be visited, whether or not an
\* earlier removal of a file failed; the visit of an expired Disk-tier
\* record deletes its metadata even if its file stays, and leaves the other
\* records to be visited; the tick ends only with nothing left to visit,
\* and after it the sweeper waits for the next tick, which can take the
\* lock whenever it is free.
C30_SweepSurvivesRemoveError ==
    [][/\ sweep.pc = "loop"
            => /\ \A id \in DOMAIN files :
                    Expired(sweep.now, files[id]) => id \in sweep.todo
               /\ \A id \in sweep.todo \ sweep'.todo :
                    (sweep'.pc = "loop" /\ Expired(sweep.now, files[id]))
                       => /\ id \notin DOMAIN files'
                          /\ sweep'.todo = sweep.todo \ {id}
               /\ sweep'.pc = "wait"
                    => /\ sweep.todo = {}
                       /\ sweep' = SweepIdle
                       /\ mu' = NoOwner
       /\ (sweep.pc = "wait" /\ mu = NoOwner) => ENABLED SweepLock]_vars

\* One tick has deleted two expired Disk-tier records although the removal
\* of both files failed, and is about to release the lock.
C30_Witness ==
    /\ sweep.pc = "loop"
    /\ sweep.todo = {}
    /\ files = <<>>
    /\ Cardinality(DOMAIN disk) = 2
    /\ \A id \in DOMAIN stored : stored[id].removedBy = "cleanupRoutine"
    /\ \A a \in DOMAIN stored, b \in DOMAIN stored :
          stored[a].meta.ExpiryTime = stored[b].meta.ExpiryTime

(* ------------------------------- C25 ----------------------------------- *)
\* C25: every call of AddFile or GetFile that has started eventually
\* returns, every sweeper tick eventually ends, and the lock, once taken, is
\* eventually released, so that a goroutine waiting for it gets it.
C25_NoOperationBlocks ==
    /\ \A p \in Procs : (pc[p] # "idle") ~> (pc[p] = "idle")
    /\ (mu # NoOwner) ~> (mu = NoOwner)

(* ------------------------------- C31 ----------------------------------- *)
\* C31: with a clock that advances and a fairly scheduled sweeper, every
\* record of the metadata table whose expiry the clock can pass is
\* eventually out of the table, whether or not anyone calls GetFile on it.
C31_EventuallyRemoved ==
    \A id \in IDs :
       (id \in DOMAIN files /\ files[id].ExpiryTime < MaxTime)
          ~> (id \notin DOMAIN files)

(* ------------------------------- C32 ----------------------------------- *)
\* C32: the path of every Disk-tier record is the one derived from its own
\* identifier and name, so two records of the metadata table never have
\* the same path; each Disk-tier record has one file, at that path; and a
\* step that deletes a record leaves the file of every other record as it
\* was.
C32_OneFilePerRecord ==
    [][/\ \A a \in DOMAIN files :
            ~files[a].IsInMemory
               => /\ files[a].Path = DiskFilePath(a, files[a].ConvertedName)
                  /\ files[a].Path[1] = a
                  /\ \A b \in DOMAIN files \ {a} :
                        files[b].Path # files[a].Path
       /\ \A a \in DOMAIN files :
            a \notin DOMAIN files'
               => \A b \in DOMAIN files' :
                     ~files'[b].IsInMemory
                        => /\ files'[b].Path \in DOMAIN disk'
                           /\ disk'[files'[b].Path] = disk[files[b].Path]]_vars

\* Two Disk-tier records of the same name are in the table, each with its
\* own file on disk.
C32_Witness ==
    /\ Cardinality(DOMAIN files) = 2
    /\ \A a \in DOMAIN files :
          /\ ~files[a].IsInMemory
          /\ files[a].ConvertedName = UploadName
          /\ files[a].Path \in DOMAIN disk
    /\ Cardinality(DOMAIN disk) = 2

(* ------------------------------- C33 ----------------------------------- *)
\* C33: in every reachable state 0 <= currentRAMUsage <= ramLimitBytes, and
\* the sum formed by the placement test of a pending upload is at most
\* ramLimitBytes plus the length of the payload, far from the limit of a
\* 64-bit integer.
C33_UsageWithinBounds ==
    /\ 0 <= currentRAMUsage
    /\ currentRAMUsage <= ramLimitBytes
    /\ \A p \in Procs :
          pc[p] \in {"AddConvert", "AddStore"}
             => /\ local[p].fileSize = Len(local[p].fileBytes)
                /\ currentRAMUsage + local[p].fileSize
                      <= ramLimitBytes + Len(local[p].fileBytes)

\* The counter is at the budget while a further upload is at its placement
\* test, after a Memory-tier record whose conversion changed its length
\* was stored.
C33_Witness ==
    /\ currentRAMUsage = ramLimitBytes
    /\ \E p \in Procs : pc[p] = "AddStore" /\ local[p].fileSize > 0
    /\ \E id \in MemIDs : files[id].Size # Len(ramStore[id])

(* ------------------------------- C34 ----------------------------------- *)
\* C34: a step takes a record out of the metadata table only if the clock
\* has passed its ExpiryTime; a record at its ExpiryTime exactly stays.  A
\* step of the sweeper leaves every record that has not expired in the
\* table with its metadata and its content or file, and if it deletes
\* nothing it leaves the counter as it was.
C34_NoEarlyRemoval ==
    [][\A id \in DOMAIN files :
         /\ id \notin DOMAIN files' => After(now, files[id].ExpiryTime)
         /\ (sweep.pc = "loop" /\ ~After(sweep.now, files[id].ExpiryTime))
               => /\ id \in DOMAIN files'
                  /\ files'[id] = files[id]
                  /\ ContentOf(Store', id) = ContentOf(Store, id)
                  /\ DOMAIN files' = DOMAIN files
                        => currentRAMUsage' = currentRAMUsage]_vars

\* A tick that sampled the clock at a record's ExpiryTime exactly has
\* visited that record and left it in the table, and has deleted another.
C34_Witness ==
    /\ sweep.pc = "loop"
    /\ \E id \in DOMAIN files \ sweep.todo :
          files[id].ExpiryTime = sweep.now
    /\ \E id \in DOMAIN stored : stored[id].removedBy = "cleanupRoutine"

(* ------------------------------- C36 ----------------------------------- *)
\* C36: the keys of the content table are exactly the identifiers of the
\* Memory-tier records of the metadata table: a Disk-tier record has no
\* entry and no entry outlives its record.
C36_NoOrphanContent == DOMAIN ramStore = MemIDs

\* A Memory-tier and a Disk-tier record are in the table, and the content
\* table has the one entry.
C36_Witness ==
    /\ Cardinality(MemIDs) = 1
    /\ Cardinality(DOMAIN files) = 2
    /\ Cardinality(DOMAIN ramStore) = 1

(* ------------------------------- C35 ----------------------------------- *)
\* C35: when AddFile inserts a record into the metadata table the clock
\* has not passed the record's ExpiryTime.
C35_LiveAtInsertion ==
    [][\A p \in Procs :
         AddSucceeds(p) => ~Expired(now', files'[local[p].fileID])]_vars

(* ------------------------------- C37 ----------------------------------- *)
\* C37: every return of AddFile and GetFile, with or without an error, is
\* made by the holder of the lock and releases it, and so does the end of
\* every sweeper tick; a goroutine that is about to call Lock() does not
\* hold the lock, and the steps of deleteFileInternal leave the lock with
\* its holder; whenever the lock is held, its holder has a step to take.
C37_LockDiscipline ==
    [][/\ \A p \in Procs :
            /\ (pc[p] # "idle" /\ pc'[p] = "idle")
                  => mu = p /\ mu' = NoOwner
            /\ pc[p] \in {"idle", "AddLock", "GetLock"} => mu # p
            /\ mu = p => ENABLED (\/ AddFileRead(p) \/ AddFileConvert(p)
                                   \/ AddFileStore(p) \/ GetFileCheck(p)
                                   \/ GetFileEvict(p))
       /\ sweep.pc = "wait" => mu # Sweeper
       /\ sweep.pc = "loop"
            => /\ mu = Sweeper
               /\ ENABLED (SweepStep \/ SweepUnlock)
               /\ mu' = (IF sweep'.pc = "wait" THEN NoOwner ELSE Sweeper)]_vars

\* AddFile has just returned a conversion error and the lock is free for
\* the goroutine that waits in GetFile.
C37_Witness ==
    /\ ret.op = "AddFile"
    /\ ret.err = ErrConversion
    /\ mu = NoOwner
    /\ \E q \in Procs : pc[q] = "GetLock"

(* ------------------------------- C38 ----------------------------------- *)
\* C38: a call of GetFile that returns a record, or that fails with the
\* disk-read error, leaves the metadata table, the content table, the
\* usage counter and the disk as they were; the record it asked for is
\* still in the table.
C38_GetIsReadOnly ==
    [][\A p \in Procs :
         (GetReturns(p) /\ ret'.err \in {ErrNil, ErrReadDisk})
            => /\ UNCHANGED <<files, ramStore, currentRAMUsage, disk>>
               /\ local[p].fileID \in DOMAIN files']_vars

\* GetFile has just failed with the disk-read error on a Disk-tier record,
\* which is still in the table beside a Memory-tier record.
C38_Witness ==
    /\ ret.op = "GetFile"
    /\ ret.err = ErrReadDisk
    /\ ret.fileID \in DOMAIN files
    /\ MemIDs # {}

(* ------------------------------- C39 ----------------------------------- *)
\* The goroutines inside performConversion.
InConversion ==
    {p \in Procs : pc[p] = "AddConvert" /\ local[p].targetFormat # ""}

\* C39: at most one goroutine is inside performConversion, and it holds the
\* lock from before the conversion starts until after it has ended.
C39_ConversionsSerialized ==
    [][/\ Cardinality(InConversion) <= 1
       /\ \A p \in InConversion : mu = p
       /\ \A p \in Procs :
            (p \in InConversion /\ pc'[p] # "AddConvert") => mu = p]_vars

\* A conversion is running while another upload waits for the lock.
C39_Witness ==
    /\ \E p \in InConversion : mu = p
    /\ \E q \in Procs : pc[q] = "AddLock"

====
